---- MODULE Spec2Model ----
(***************************************************************************)
(* A model of src/user-guide/main.py: the FastAPI user-guide application.  *)
(*                                                                         *)
(* The state is the two module-level structures (items, fake_items_db),    *)
(* the request being answered and the response given to it.  Every route   *)
(* is one action: it draws the raw request parameters from small sets,     *)
(* validates them as the declarations of the route demand, runs the        *)
(* handler body when validation passes, and applies the route's            *)
(* response_model.  Every handler is an async function without an await,   *)
(* so a request is handled atomically with respect to the others.          *)
(*                                                                         *)
(* Conventions.  An optional value (Union[T, None], or a parameter that a  *)
(* request may leave out) is a sequence of length at most one: None is     *)
(* <<>> and a present value v is <<v>>.  A Python dict or a JSON object is  *)
(* a record.  A float is an exact integer of a bounded range: rounding and *)
(* the non-finite floats are outside the model.  Validation errors carry   *)
(* the locations of the failing parameters (loc), as pydantic 1.x reports  *)
(* them; the idioms of the source (regex=, Config.schema_extra, .dict())   *)
(* are those of pydantic 1.x.                                              *)
(***************************************************************************)
EXTENDS Integers, Sequences, FiniteSets, TLC

VARIABLES items, fake_items_db, request, response, submitted

vars == <<items, fake_items_db, request, response, submitted>>

(***************************************************************************)
(* Bounds of the inputs.                                                   *)
(***************************************************************************)
MaxIndex == 4
MaxPrice == 2
MaxTax == 2

None == <<>>
Some(v) == <<v>>
Opt(S) == {None} \cup {Some(v) : v \in S}

(***************************************************************************)
(* Input alphabets.  Passwords are drawn from a set of their own, so that  *)
(* a password found in a response has flowed there from a password field.  *)
(***************************************************************************)
Names == {"alice", "bob"}
Passwords == {"hunter2", "s3cret"}

(* Addresses as sequences of characters; "B" is the capital of "b". *)
ValidEmailInputs ==
    { <<"a", "@", "b", ".", "b">>,
      <<"a", "@", "B", ".", "b">>,
      <<"B", "@", "b", ".", "B">> }
InvalidEmailInputs ==
    { <<"a", "b">>,
      <<"a", "@", "b">>,
      <<"@", "b", ".", "b">>,
      <<"a", "@", "b", ".">>,
      <<"a", "@", "@", "b", ".", "b">> }
EmailInputs == ValidEmailInputs \cup InvalidEmailInputs

(***************************************************************************)
(* Responses.                                                              *)
(***************************************************************************)
HTTP_200_OK == 200
HTTP_201_CREATED == 201
HTTP_404_NOT_FOUND == 404
HTTP_422_UNPROCESSABLE_ENTITY == 422
HTTP_500_INTERNAL_SERVER_ERROR == 500

(* A handler returned `body`; the route's status code is `status`. *)
Returned(handler, status, body) ==
    [status |-> status, handler |-> handler, body |-> body]

(* Validation failed: the handler body is not entered. *)
RequestValidationError(locs) ==
    [status |-> HTTP_422_UNPROCESSABLE_ENTITY, handler |-> "none",
     body |-> [detail |-> locs]]

(* raise HTTPException(status_code=..., detail=...) inside a handler. *)
HTTPException(handler, status_code, detail) ==
    [status |-> status_code, handler |-> handler, body |-> [detail |-> detail]]

(* The value a handler returned does not validate against response_model. *)
ResponseValidationError(handler) ==
    [status |-> HTTP_500_INTERNAL_SERVER_ERROR, handler |-> handler,
     body |-> [detail |-> "Internal Server Error"]]

(* A required parameter `name` that the request leaves out. *)
Missing(opt, loc) == IF opt = None THEN {loc} ELSE {}

(***************************************************************************)
(* The seeded structures.  A key of a dict is a typed value: a str and a   *)
(* UUID of the same text are different keys.                               *)
(***************************************************************************)
Str(s) == [type |-> "str", val |-> s]
SeedItems == [k \in {Str("foo")} |-> "foo is not fool"]
SeedFakeItemsDb ==
    << [item_name |-> "Foo"], [item_name |-> "Bar"], [item_name |-> "Baz"] >>

(***************************************************************************)
(* POST /login/                                                            *)
(***************************************************************************)
login(username, password) == [username |-> username]

PostLogin ==
    \E username \in Opt(Names), password \in Opt(Passwords) :
        LET errors == Missing(username, "body.username")
                        \cup Missing(password, "body.password")
        IN  /\ request' = [route |-> "POST /login/", username |-> username,
                           password |-> password]
            /\ response' = IF errors # {}
                             THEN RequestValidationError(errors)
                             ELSE Returned("login", HTTP_200_OK,
                                           login(username[1], password[1]))
            /\ submitted' = submitted \cup {password[i] : i \in 1..Len(password)}
            /\ UNCHANGED <<items, fake_items_db>>

(***************************************************************************)
(* EmailStr: the address must have one "@", a local part, and a domain of  *)
(* period-separated non-empty labels with at least one period; validation  *)
(* returns the address with its domain in lower case.                      *)
(***************************************************************************)
Lower(c) == IF c = "B" THEN "b" ELSE c

AtIndex(e) == CHOOSE i \in 1..Len(e) : e[i] = "@"

(* Fault: email declared as a plain str. *)
EmailStr_accepts_any(e) == TRUE

EmailStr_valid(e) ==
    /\ Cardinality({i \in 1..Len(e) : e[i] = "@"}) = 1
    /\ LET at == AtIndex(e)
       IN  /\ at > 1
           /\ at < Len(e)
           /\ \E i \in (at + 1)..Len(e) : e[i] = "."
           /\ e[at + 1] # "."
           /\ e[Len(e)] # "."
           /\ \A i \in (at + 1)..(Len(e) - 1) : ~(e[i] = "." /\ e[i + 1] = ".")

EmailStr_validate(e) ==
    LET at == IF \E i \in 1..Len(e) : e[i] = "@" THEN AtIndex(e) ELSE Len(e)
    IN  [i \in 1..Len(e) |-> IF i > at THEN Lower(e[i]) ELSE e[i]]

(***************************************************************************)
(* UserIn, UserOut and POST /user/                                         *)
(***************************************************************************)
UserInFields == {"username", "password", "email", "full_name"}
UserOutFields == {"username", "email", "full_name"}

UserInBodies ==
    [username : Opt(Names), password : Opt(Passwords),
     email : Opt(EmailInputs), full_name : Opt(Names)]

UserIn_errors(body) ==
    Missing(body.username, "body.username")
        \cup Missing(body.password, "body.password")
        \cup Missing(body.email, "body.email")
        \cup (IF body.email # None /\ ~EmailStr_valid(body.email[1])
                THEN {"body.email"} ELSE {})

UserIn(body) ==
    [username |-> body.username[1], password |-> body.password[1],
     email |-> EmailStr_validate(body.email[1]), full_name |-> body.full_name]

(* Fault: response_model=UserIn. *)
UserOut_with_password(user) == [f \in UserInFields |-> user[f]]

(* response_model=UserOut: the fields of UserOut, read from the returned object. *)
UserOut(user) == [f \in UserOutFields |-> user[f]]

create_user(user) == user

PostUser ==
    \E body \in UserInBodies :
        LET errors == UserIn_errors(body)
        IN  /\ request' = [route |-> "POST /user/", body |-> body]
            /\ response' = IF errors # {}
                             THEN RequestValidationError(errors)
                             ELSE Returned("create_user", HTTP_201_CREATED,
                                           UserOut(create_user(UserIn(body))))
            /\ submitted' = submitted
                              \cup {body.password[i] : i \in 1..Len(body.password)}
            /\ UNCHANGED <<items, fake_items_db>>

(***************************************************************************)
(* GET /                                                                   *)
(***************************************************************************)
home == [message |-> "Hello World!"]

GetRoot ==
    /\ request' = [route |-> "GET /"]
    /\ response' = Returned("home", HTTP_200_OK, home)
    /\ UNCHANGED <<items, fake_items_db, submitted>>

(***************************************************************************)
(* ModelName and GET /models/{model_name}                                  *)
(***************************************************************************)
ModelName == {"alexnet", "resnet", "lenet"}
ModelNameInputs == ModelName \cup {"vgg", "AlexNet"}

(* Fault: the second test compares with "resnet". *)
get_model_value_resnet(model_name) ==
    IF model_name = "alexnet"
      THEN [model_name |-> model_name, message |-> "Deep Learning FTW!"]
      ELSE IF model_name = "resnet"
             THEN [model_name |-> model_name, message |-> "LeCNN all the images"]
             ELSE [model_name |-> model_name, message |-> "Have some residuals"]

get_model(model_name) ==
    IF model_name = "alexnet"
      THEN [model_name |-> model_name, message |-> "Deep Learning FTW!"]
      ELSE IF model_name = "lenet"
             THEN [model_name |-> model_name, message |-> "LeCNN all the images"]
             ELSE [model_name |-> model_name, message |-> "Have some residuals"]

GetModel ==
    \E model_name \in ModelNameInputs :
        /\ request' = [route |-> "GET /models/{model_name}",
                       model_name |-> model_name]
        /\ response' = IF model_name \notin ModelName
                         THEN RequestValidationError({"path.model_name"})
                         ELSE Returned("get_model", HTTP_200_OK,
                                       get_model(model_name))
        /\ UNCHANGED <<items, fake_items_db, submitted>>

(***************************************************************************)
(* GET /files/{file_path:path}                                             *)
(***************************************************************************)
FilePaths == {"a.txt", "home/alice/a.txt", "/etc/hosts"}

read_file(file_path) == [file_path |-> file_path]

GetFile ==
    \E file_path \in FilePaths :
        /\ request' = [route |-> "GET /files/{file_path}", file_path |-> file_path]
        /\ response' = Returned("read_file", HTTP_200_OK, read_file(file_path))
        /\ UNCHANGED <<items, fake_items_db, submitted>>

(***************************************************************************)
(* GET /items/{item_id}: item_id: UUID, q: Query(alias="item-query",       *)
(* min_length=3, max_length=50, regex="^fixedquery$"), short: bool = False *)
(***************************************************************************)
(* str(UUID(text)) for the path texts that UUID() accepts. *)
UUIDText ==
    ("6f9619ff-8b86-d011-b42d-00c04fc964ff" :> "6f9619ff-8b86-d011-b42d-00c04fc964ff")
    @@ ("6F9619FF8B86D011B42D00C04FC964FF" :> "6f9619ff-8b86-d011-b42d-00c04fc964ff")
    @@ ("00000000-0000-0000-0000-000000000000" :> "00000000-0000-0000-0000-000000000000")

ItemIdTexts == DOMAIN UUIDText \cup {"foo", "7", "6f9619ff"}

(* Fault: item_id declared as a str. *)
Path_as_str(text) == Some(Str(text))

(* item_id: UUID.  None when the text is no UUID. *)
UUID(text) ==
    IF text \in DOMAIN UUIDText
      THEN Some([type |-> "UUID", val |-> UUIDText[text]])
      ELSE None

min_length == 3
max_length == 50

QueryTexts ==
    {"fixedquery", "fixedquery\n", "fixedquerx", "fq", "",
     "fixedquery" \o "fixedquery" \o "fixedquery" \o "fixedquery"
        \o "fixedquery" \o "fixedquery"}

(* re.match("^fixedquery$", s): "$" also matches before a final line feed. *)
regex_match(s) == s \in {"fixedquery", "fixedquery\n"}

(* Fault: the regex constraint left out. *)
Query_q_errors_no_regex(q) ==
    IF q # None /\ (Len(q[1]) < min_length \/ Len(q[1]) > max_length)
      THEN {"query.item-query"}
      ELSE {}

Query_q_errors(q) ==
    IF q # None /\ (\/ Len(q[1]) < min_length
                    \/ Len(q[1]) > max_length
                    \/ ~regex_match(q[1]))
      THEN {"query.item-query"}
      ELSE {}

(* `if q:` is false for None and for the empty string. *)
truthy_str(q) == q # None /\ q[1] # ""

LongDescription == "This is an amazing item that has a long description"

ItemFields == {"name", "description", "price", "tax", "tags", "image"}

(* response_model=Item applied to a dict that a handler returned: name and *)
(* price are required, the other fields have defaults.                     *)
response_model_Item(handler, content) ==
    IF {"name", "price"} \subseteq DOMAIN content
      THEN Returned(handler, HTTP_200_OK,
             [f \in ItemFields |->
                IF f \in DOMAIN content THEN content[f]
                ELSE IF f = "tags" THEN {} ELSE None])
      ELSE ResponseValidationError(handler)

(* `key in d` *)
dict_contains(d, key) == key \in DOMAIN d

read_item(item_id, q, short) ==
    IF ~dict_contains(items, item_id)
      THEN HTTPException("read_item", HTTP_404_NOT_FOUND, "Item not found")
      ELSE LET item0 == [item_id |-> item_id]
               item1 == IF truthy_str(q) THEN item0 @@ [q |-> q[1]] ELSE item0
               item2 == IF ~short
                          THEN item1 @@ [description |-> LongDescription]
                          ELSE item1
           IN  response_model_Item("read_item", item2)

GetItem ==
    \E text \in ItemIdTexts, q \in Opt(QueryTexts), short \in Opt(BOOLEAN) :
        LET item_id == UUID(text)
            errors == Missing(item_id, "path.item_id") \cup Query_q_errors(q)
        IN  /\ request' = [route |-> "GET /items/{item_id}", item_id |-> text,
                           q |-> q, short |-> short]
            /\ response' = IF errors # {}
                             THEN RequestValidationError(errors)
                             ELSE read_item(item_id[1], q,
                                            IF short = None THEN FALSE ELSE short[1])
            /\ UNCHANGED <<items, fake_items_db, submitted>>

(***************************************************************************)
(* GET /users/{user_id}/items/{item_id}                                    *)
(***************************************************************************)
(* int(text) for the path texts that are integers. *)
IntText == ("0" :> 0) @@ ("1" :> 1) @@ ("-1" :> (0 - 1))
IntTexts == DOMAIN IntText \cup {"x"}

int(text) == IF text \in DOMAIN IntText THEN Some(IntText[text]) ELSE None

read_user_item(user_id, item_id, q, short) ==
    LET item0 == [item_id |-> item_id, owner_id |-> user_id]
        item1 == IF truthy_str(q) THEN item0 @@ [q |-> q[1]] ELSE item0
    IN  IF ~short THEN item1 @@ [description |-> LongDescription] ELSE item1

GetUserItem ==
    \E utext \in IntTexts, item_id \in {"foo", "7"},
       q \in Opt({"fixedquery", ""}), short \in Opt(BOOLEAN) :
        LET user_id == int(utext)
            errors == Missing(user_id, "path.user_id")
        IN  /\ request' = [route |-> "GET /users/{user_id}/items/{item_id}",
                           user_id |-> utext, item_id |-> item_id, q |-> q,
                           short |-> short]
            /\ response' = IF errors # {}
                             THEN RequestValidationError(errors)
                             ELSE Returned("read_user_item", HTTP_200_OK,
                                    read_user_item(user_id[1], item_id, q,
                                        IF short = None THEN FALSE ELSE short[1]))
            /\ UNCHANGED <<items, fake_items_db, submitted>>

(***************************************************************************)
(* GET /items/: skip: int = 0, limit: int = 10                             *)
(***************************************************************************)
Min(a, b) == IF a < b THEN a ELSE b
Max(a, b) == IF a > b THEN a ELSE b

(* A bound of a slice of a list of length n: a negative bound counts from  *)
(* the end of the list, and the result is clamped to 0..n.                 *)
slice_index(i, n) == IF i < 0 THEN Max(i + n, 0) ELSE Min(i, n)

(* s[start:stop] *)
slice(s, start, stop) ==
    SubSeq(s, slice_index(start, Len(s)) + 1, slice_index(stop, Len(s)))

default_skip == 0
default_limit == 10

(* Fault: fake_items_db[skip : limit]. *)
read_items_to_limit(skip, limit) == slice(fake_items_db, skip, limit)

(* the second handler named read_item in the source *)
read_items(skip, limit) == slice(fake_items_db, skip, skip + limit)

IndexInputs == (0 - MaxIndex)..MaxIndex

GetItems ==
    \E skip \in Opt(IndexInputs), limit \in Opt(IndexInputs) :
        /\ request' = [route |-> "GET /items/", skip |-> skip, limit |-> limit]
        /\ response' = Returned("read_items", HTTP_200_OK,
                         read_items(IF skip = None THEN default_skip ELSE skip[1],
                                    IF limit = None THEN default_limit ELSE limit[1]))
        /\ UNCHANGED <<items, fake_items_db, submitted>>

(***************************************************************************)
(* Image and Item                                                          *)
(***************************************************************************)
UrlTexts == {"http://x.io/a.png", "not a url"}

(* url: HttpUrl *)
HttpUrl_valid(url) == url \in {"http://x.io/a.png"}

ImageBodies == [url : UrlTexts, name : {"pic"}]

Image_errors(body, loc) == IF ~HttpUrl_valid(body.url) THEN {loc} ELSE {}

description_max_length == 300

Chars50 ==
    "0123456789" \o "0123456789" \o "0123456789" \o "0123456789" \o "0123456789"
Chars300 == Chars50 \o Chars50 \o Chars50 \o Chars50 \o Chars50 \o Chars50

DescriptionTexts == {"A very nice Item", Chars300, Chars300 \o "x"}

PriceInputs == 0..MaxPrice
TaxInputs == (0 - MaxTax)..MaxTax
TagsInputs == { <<>>, <<"a", "b", "a">> }

(* JSON bodies for an Item: every price and tax with the other fields      *)
(* varied one group at a time.                                             *)
ItemBodies ==
    [name : Opt({"Foo"}), description : Opt(DescriptionTexts),
     price : Opt(PriceInputs), tax : Opt(TaxInputs), tags : {<<>>},
     image : {None}]
    \cup
    [name : {Some("Foo")}, description : {None},
     price : Opt(PriceInputs), tax : Opt(TaxInputs), tags : TagsInputs,
     image : Opt(ImageBodies)]

Item_errors(body, loc) ==
    Missing(body.name, loc \o "name")
        \cup Missing(body.price, loc \o "price")
        \cup (IF body.price # None /\ ~(body.price[1] > 0)
                THEN {loc \o "price"} ELSE {})
        \cup (IF body.description # None
                   /\ Len(body.description[1]) > description_max_length
                THEN {loc \o "description"} ELSE {})
        \cup (IF body.image # None
                THEN Image_errors(body.image[1], loc \o "image.url") ELSE {})

(* tags: Set[str] makes a set of the JSON array. *)
Item(body) ==
    [name |-> body.name[1], description |-> body.description,
     price |-> body.price[1], tax |-> body.tax,
     tags |-> {body.tags[i] : i \in 1..Len(body.tags)}, image |-> body.image]

(* `if item.tax:` is false for None and for zero. *)
truthy_num(tax) == tax # None /\ tax[1] # 0

(***************************************************************************)
(* POST /items/                                                            *)
(***************************************************************************)
(* Fault: the tax is not added. *)
create_item_price_only(item) ==
    IF truthy_num(item.tax)
      THEN item @@ [price_with_tax |-> item.price]
      ELSE item

(* Fault: `if item.tax > 0`. *)
create_item_positive_tax(item) ==
    IF item.tax # None /\ item.tax[1] > 0
      THEN item @@ [price_with_tax |-> item.price + item.tax[1]]
      ELSE item

create_item(item) ==
    LET item_dict == item
    IN  IF truthy_num(item.tax)
          THEN item_dict @@ [price_with_tax |-> item.price + item.tax[1]]
          ELSE item_dict

(* Fault: create_item appends the item to fake_items_db. *)
PostItemsStoring ==
    \E body \in ItemBodies :
        LET errors == Item_errors(body, "body.")
        IN  /\ request' = [route |-> "POST /items/", body |-> body]
            /\ response' = IF errors # {}
                             THEN RequestValidationError(errors)
                             ELSE Returned("create_item", HTTP_200_OK,
                                           create_item(Item(body)))
            /\ fake_items_db' = IF errors # {} THEN fake_items_db
                                 ELSE Append(fake_items_db,
                                             [item_name |-> body.name[1]])
            /\ UNCHANGED <<items, submitted>>

PostItems ==
    \E body \in ItemBodies :
        LET errors == Item_errors(body, "body.")
        IN  /\ request' = [route |-> "POST /items/", body |-> body]
            /\ response' = IF errors # {}
                             THEN RequestValidationError(errors)
                             ELSE Returned("create_item", HTTP_200_OK,
                                           create_item(Item(body)))
            /\ UNCHANGED <<items, fake_items_db, submitted>>

(***************************************************************************)
(* User and PUT /items/{item_id}                                           *)
(***************************************************************************)
SampleItemBodies ==
    { [name |-> Some("Foo"), description |-> None, price |-> Some(1),
       tax |-> Some(1), tags |-> <<>>, image |-> None],
      [name |-> Some("Foo"), description |-> Some("A very nice Item"),
       price |-> Some(1), tax |-> None, tags |-> <<"a", "b", "a">>,
       image |-> None],
      [name |-> Some("Foo"), description |-> None, price |-> Some(0),
       tax |-> None, tags |-> <<>>, image |-> None] }

(* A JSON body for a User; password is a field User does not declare. *)
UserBodies ==
    [username : Opt({"alice"}), full_name : {None}, password : Opt(Passwords)]

User_errors(body, loc) == Missing(body.username, loc \o "username")

(* Fields that the model does not declare are ignored. *)
User(body) == [username |-> body.username[1], full_name |-> body.full_name]

update_item(item_id, item, user, importance) ==
    [item_id |-> item_id, item |-> item, user |-> user, importance |-> importance]

PutItem ==
    \E text \in {"1", "x"}, item \in SampleItemBodies, user \in UserBodies,
       importance \in Opt({1}) :
        LET item_id == int(text)
            errors == Missing(item_id, "path.item_id")
                        \cup Item_errors(item, "body.item.")
                        \cup User_errors(user, "body.user.")
                        \cup Missing(importance, "body.importance")
        IN  /\ request' = [route |-> "PUT /items/{item_id}", item_id |-> text,
                           item |-> item, user |-> user,
                           importance |-> importance]
            /\ response' = IF errors # {}
                             THEN RequestValidationError(errors)
                             ELSE Returned("update_item", HTTP_200_OK,
                                    update_item(item_id[1], Item(item), User(user),
                                                importance[1]))
            /\ submitted' = submitted
                              \cup {user.password[i] : i \in 1..Len(user.password)}
            /\ UNCHANGED <<items, fake_items_db>>

(***************************************************************************)
(* Offer and POST /offers/                                                 *)
(***************************************************************************)
ItemLists ==
    {<<>>} \cup {<<a>> : a \in SampleItemBodies}
           \cup {<<a, b>> : a \in SampleItemBodies, b \in SampleItemBodies}

OfferBodies ==
    [name : Opt({"deal"}), description : {None}, price : Opt({0}),
     items : Opt(ItemLists)]

Offer_errors(body) ==
    Missing(body.name, "body.name")
        \cup Missing(body.price, "body.price")
        \cup Missing(body.items, "body.items")
        \cup (IF body.items = None THEN {}
              ELSE UNION {Item_errors(body.items[1][i], "body.items.")
                            : i \in 1..Len(body.items[1])})

Offer(body) ==
    [name |-> body.name[1], description |-> body.description,
     price |-> body.price[1],
     items |-> [i \in 1..Len(body.items[1]) |-> Item(body.items[1][i])]]

create_offer(offer) == offer

PostOffers ==
    \E body \in OfferBodies :
        LET errors == Offer_errors(body)
        IN  /\ request' = [route |-> "POST /offers/", body |-> body]
            /\ response' = IF errors # {}
                             THEN RequestValidationError(errors)
                             ELSE Returned("create_offer", HTTP_200_OK,
                                           create_offer(Offer(body)))
            /\ UNCHANGED <<items, fake_items_db, submitted>>

(***************************************************************************)
(* POST /images/multiple/                                                  *)
(***************************************************************************)
ImageLists ==
    {<<>>} \cup {<<a>> : a \in ImageBodies}
           \cup {<<a, b>> : a \in ImageBodies, b \in ImageBodies}

create_multiple_images(images) == images

PostImagesMultiple ==
    \E images \in ImageLists :
        LET errors == UNION {Image_errors(images[i], "body.url")
                               : i \in 1..Len(images)}
        IN  /\ request' = [route |-> "POST /images/multiple/", images |-> images]
            /\ response' = IF errors # {}
                             THEN RequestValidationError(errors)
                             ELSE Returned("create_multiple_images", HTTP_200_OK,
                                           create_multiple_images(images))
            /\ UNCHANGED <<items, fake_items_db, submitted>>

Init ==
    /\ items = SeedItems
    /\ fake_items_db = SeedFakeItemsDb
    /\ request = [route |-> "none"]
    /\ response = [status |-> 0, handler |-> "none", body |-> [detail |-> {}]]
    /\ submitted = {}

Next ==
    \/ PostLogin
    \/ PostUser
    \/ GetRoot
    \/ GetModel
    \/ GetFile
    \/ GetItem
    \/ GetUserItem
    \/ GetItems
    \/ PostItems
    \/ PutItem
    \/ PostOffers
    \/ PostImagesMultiple

Spec == Init /\ [][Next]_vars

(***************************************************************************)
(* Properties.  req and resp name the request answered last and its        *)
(* response.                                                               *)
(***************************************************************************)
OptSet(o) == {o[i] : i \in 1..Len(o)}

ItemStrings(item) ==
    {item.name} \cup OptSet(item.description) \cup item.tags
        \cup UNION {{im.url, im.name} : im \in OptSet(item.image)}

(* Every string a response body holds, by the shape its handler returns. *)
ResponseStrings(resp) ==
    LET b == resp.body
    IN  CASE resp.status = HTTP_422_UNPROCESSABLE_ENTITY -> b.detail
          [] resp.status \in {HTTP_404_NOT_FOUND, HTTP_500_INTERNAL_SERVER_ERROR}
               -> {b.detail}
          [] resp.handler = "login" -> {b.username}
          [] resp.handler = "create_user" ->
               {b[f] : f \in DOMAIN b \ {"email", "full_name"}}
                 \cup OptSet(b.full_name)
          [] resp.handler = "home" -> {b.message}
          [] resp.handler = "get_model" -> {b.model_name, b.message}
          [] resp.handler = "read_file" -> {b.file_path}
          [] resp.handler = "read_user_item" ->
               {b[f] : f \in DOMAIN b \ {"owner_id"}}
          [] resp.handler = "read_items" -> {b[i].item_name : i \in 1..Len(b)}
          [] resp.handler = "create_item" -> ItemStrings(b)
          [] resp.handler = "update_item" ->
               ItemStrings(b.item)
                 \cup {b.user[f] : f \in DOMAIN b.user \ {"full_name"}}
                 \cup OptSet(b.user.full_name)
          [] resp.handler = "create_offer" ->
               {b.name} \cup UNION {ItemStrings(b.items[i]) : i \in 1..Len(b.items)}
          [] resp.handler = "create_multiple_images" ->
               UNION {{b[i].url, b[i].name} : i \in 1..Len(b)}
          [] OTHER -> {}

(* Every field name of a response body, nested objects included. *)
ResponseFields(resp) ==
    LET b == resp.body
    IN  CASE resp.handler = "update_item"
                 /\ resp.status = HTTP_200_OK ->
               DOMAIN b \cup DOMAIN b.item \cup DOMAIN b.user
          [] resp.handler \in {"read_items", "create_multiple_images"}
                 /\ resp.status = HTTP_200_OK ->
               UNION {DOMAIN b[i] : i \in 1..Len(b)}
          [] OTHER -> DOMAIN b

NoPasswordInResponse ==
    /\ "password" \notin ResponseFields(response)
    /\ ResponseStrings(response) \cap submitted = {}

UserCreated == request.route = "POST /user/" /\ response.status = HTTP_201_CREATED

(* The address with the part after the "@" in lower case. *)
DomainLowered(out, in) ==
    /\ Len(out) = Len(in)
    /\ \E at \in 1..Len(in) :
         /\ in[at] = "@"
         /\ \A i \in 1..at : out[i] = in[i]
         /\ \A i \in (at + 1)..Len(in) : out[i] = Lower(in[i])

ItemRoute == request.route = "GET /items/{item_id}"

PatternOrLengthFails(q) ==
    \/ q \notin {"fixedquery", "fixedquery\n"}
    \/ Len(q) < 3
    \/ Len(q) > 50

ItemQueryValidates == request.q = None \/ ~PatternOrLengthFails(request.q[1])

ShortFlag == request.short # None /\ request.short[1]

(* C2: GET /items/{item_id} with a validly parsed item_id that is no key   *)
(* of the items mapping answers 404 "Item not found", and with an item_id  *)
(* that is a key of the mapping it answers a success that holds the        *)
(* description field exactly when short is false.                          *)
C2_PresentIdSucceeds ==
    (ItemRoute /\ ItemQueryValidates) =>
        /\ (request.item_id \in {k.val : k \in DOMAIN items}) =>
              /\ response.status = HTTP_200_OK
              /\ ("description" \in DOMAIN response.body) <=> ~ShortFlag
        /\ (/\ request.item_id \in DOMAIN UUIDText
            /\ request.item_id \notin {k.val : k \in DOMAIN items}) =>
              /\ response.status = HTTP_404_NOT_FOUND
              /\ response.body.detail = "Item not found"

ItemsRoute == request.route = "POST /items/"

ItemPayloadValid(body) ==
    /\ body.name # None
    /\ body.price # None /\ body.price[1] > 0
    /\ body.description = None \/ Len(body.description[1]) <= 300
    /\ body.image = None \/ body.image[1].url = "http://x.io/a.png"

ItemEchoed ==
    /\ response.body.name = request.body.name[1]
    /\ response.body.description = request.body.description
    /\ response.body.price = request.body.price[1]
    /\ response.body.tax = request.body.tax
    /\ response.body.tags = {request.body.tags[i] : i \in 1..Len(request.body.tags)}
    /\ response.body.image = request.body.image

(* C3: for every valid Item payload with tax > 0 the POST /items/ response *)
(* holds all the fields of the item unchanged and price_with_tax, equal to *)
(* price + tax.                                                            *)
C3_PriceWithTax ==
    (/\ ItemsRoute
     /\ ItemPayloadValid(request.body)
     /\ request.body.tax # None /\ request.body.tax[1] > 0) =>
        /\ response.status = HTTP_200_OK
        /\ DOMAIN response.body = ItemFields \cup {"price_with_tax"}
        /\ ItemEchoed
        /\ response.body.price_with_tax
             = request.body.price[1] + request.body.tax[1]

C3_Witness ==
    /\ ItemsRoute
    /\ response.status = HTTP_200_OK
    /\ request.body.tax = Some(2)
    /\ request.body.price = Some(1)
    /\ response.body.price_with_tax = 3

(* C4: for every valid Item payload the POST /items/ response holds        *)
(* price_with_tax exactly when tax is present and not zero, a negative tax *)
(* included, and then its value is price + tax.                            *)
C4_TaxTruthiness ==
    (ItemsRoute /\ ItemPayloadValid(request.body)) =>
        /\ response.status = HTTP_200_OK
        /\ ("price_with_tax" \in DOMAIN response.body)
             <=> (request.body.tax # None /\ request.body.tax[1] # 0)
        /\ ("price_with_tax" \in DOMAIN response.body) =>
             response.body.price_with_tax
               = request.body.price[1] + request.body.tax[1]

C4_Witness ==
    /\ ItemsRoute
    /\ response.status = HTTP_200_OK
    /\ request.body.tax # None /\ request.body.tax[1] < 0
    /\ "price_with_tax" \in DOMAIN response.body

ListRoute == request.route = "GET /items/"

SkipOf == IF request.skip = None THEN 0 ELSE request.skip[1]
LimitOf == IF request.limit = None THEN 10 ELSE request.limit[1]

(* The records of [Foo, Bar, Baz] at the positions lo <= i < hi of 0..2. *)
Window(lo, hi) ==
    LET idx == {i \in 0..2 : lo <= i /\ i < hi}
    IN  IF idx = {} THEN <<>>
        ELSE LET first == CHOOSE i \in idx : \A j \in idx : i <= j
             IN  [k \in 1..Cardinality(idx) |-> SeedFakeItemsDb[first + k]]

FromEnd(b) == IF b < 0 THEN b + 3 ELSE b

(* C5 as stated: for every skip and limit, negative ones included,         *)
(* GET /items/ returns the records at the positions skip <= i < skip+limit *)
(* of [Foo, Bar, Baz], positions outside 0..2 clamped away.                *)
C5_ClampedWindow ==
    ListRoute =>
        /\ response.status = HTTP_200_OK
        /\ response.body = Window(SkipOf, SkipOf + LimitOf)

(* C5 amended: GET /items/ succeeds for every skip and limit and returns   *)
(* the records at the positions lo <= i < hi of [Foo, Bar, Baz], where lo  *)
(* is skip and hi is skip+limit, a negative one of them counted from the   *)
(* end of the list (3 added); positions outside 0..2 are clamped away, and *)
(* skip=1, limit=1 returns exactly "Bar".                                  *)
C5_SliceWindow ==
    ListRoute =>
        /\ response.status = HTTP_200_OK
        /\ response.body = Window(FromEnd(SkipOf), FromEnd(SkipOf + LimitOf))
        /\ (SkipOf >= 0 /\ SkipOf + LimitOf >= 0) =>
             response.body = Window(SkipOf, SkipOf + LimitOf)
        /\ (SkipOf = 1 /\ LimitOf = 1) =>
             response.body = <<[item_name |-> "Bar"]>>

C5_Witness ==
    /\ ListRoute
    /\ request.skip = Some(1)
    /\ request.limit = Some(1)
    /\ response.body = <<[item_name |-> "Bar"]>>

ModelRoute == request.route = "GET /models/{model_name}"

(* C6: GET /models/{model_name} answers alexnet with "Deep Learning FTW!", *)
(* lenet with "LeCNN all the images" and resnet with "Have some            *)
(* residuals", echoes model_name, and rejects every other value with a     *)
(* validation error without running the handler.                           *)
C6_ModelMessages ==
    ModelRoute =>
        IF request.model_name \in {"alexnet", "resnet", "lenet"}
          THEN /\ response.status = HTTP_200_OK
               /\ response.handler = "get_model"
               /\ response.body.model_name = request.model_name
               /\ response.body.message =
                    (CASE request.model_name = "alexnet" -> "Deep Learning FTW!"
                       [] request.model_name = "lenet" -> "LeCNN all the images"
                       [] request.model_name = "resnet" -> "Have some residuals")
          ELSE /\ response.status = HTTP_422_UNPROCESSABLE_ENTITY
               /\ response.handler = "none"

C6_Witness ==
    /\ ModelRoute
    /\ request.model_name = "resnet"
    /\ response.body.message = "Have some residuals"

Rejected ==
    /\ response.status = HTTP_422_UNPROCESSABLE_ENTITY
    /\ response.handler = "none"

(* C7 as stated: on GET /items/{item_id} an item-query value that is       *)
(* present and does not equal "fixedquery" is answered with 422, whatever  *)
(* item_id is.                                                             *)
C7_NotFixedqueryRejected ==
    (ItemRoute /\ request.q # None /\ request.q[1] # "fixedquery") => Rejected

(* C7 amended: on GET /items/{item_id} an item-query value that is present *)
(* and fails the pattern ^fixedquery$ or the length bounds 3..50 is        *)
(* answered with 422 and never with 404 or a success, whatever item_id is; *)
(* the handler body is entered only when every parameter validates.  (The  *)
(* pattern also accepts "fixedquery" followed by one line feed.)           *)
C7_InvalidQueryRejected ==
    /\ (ItemRoute /\ ~ItemQueryValidates) => Rejected
    /\ (ItemRoute /\ response.handler = "read_item") =>
          /\ ItemQueryValidates
          /\ request.item_id \in DOMAIN UUIDText

C7_Witness ==
    /\ ItemRoute
    /\ request.item_id = "00000000-0000-0000-0000-000000000000"
    /\ request.q = Some("fixedquerx")
    /\ Rejected

(* C8: after any sequence of requests the items mapping is still           *)
(* {"foo": "foo is not fool"} and the fake item list is still              *)
(* [Foo, Bar, Baz], so that the whole list is what GET /items/ returns     *)
(* whatever was handled before.                                            *)
C8_SeedsNeverMutated ==
    /\ items = [k \in {[type |-> "str", val |-> "foo"]} |-> "foo is not fool"]
    /\ fake_items_db =
         <<[item_name |-> "Foo"], [item_name |-> "Bar"], [item_name |-> "Baz"]>>
    /\ (ListRoute /\ request.skip = None /\ request.limit = None) =>
          response.body = fake_items_db

C8_Witness ==
    /\ submitted = Passwords
    /\ ItemsRoute
    /\ response.handler = "create_item"
    /\ fake_items_db = SeedFakeItemsDb

UserRoute == request.route = "POST /user/"

RequiredUserFieldMissing ==
    \/ request.body.username = None
    \/ request.body.password = None
    \/ request.body.email = None

(* C9: POST /user/ with an email that is no syntactically valid address,   *)
(* or without username, password or email, is rejected with a validation   *)
(* error before the handler runs; with a valid body the status is 201;     *)
(* either way nothing is stored.                                           *)
C9_InvalidUserRejected ==
    UserRoute =>
        /\ IF \/ RequiredUserFieldMissing
              \/ request.body.email[1] \in InvalidEmailInputs
             THEN Rejected
             ELSE /\ response.status = HTTP_201_CREATED
                  /\ response.handler = "create_user"
        /\ items = SeedItems
        /\ fake_items_db = SeedFakeItemsDb

C9_Witness ==
    /\ UserRoute
    /\ ~RequiredUserFieldMissing
    /\ request.body.email[1] \in InvalidEmailInputs
    /\ Rejected

(* C10: no request to GET /items/{item_id} is answered with 200: every key *)
(* of the items mapping is a str, and a request with a well-formed UUID    *)
(* and valid parameters is answered 404 "Item not found".                  *)
C10_SuccessUnreachable ==
    /\ \A k \in DOMAIN items : k.type = "str"
    /\ ItemRoute =>
          /\ response.status \in {HTTP_422_UNPROCESSABLE_ENTITY, HTTP_404_NOT_FOUND}
          /\ (request.item_id \in DOMAIN UUIDText /\ ItemQueryValidates) =>
                /\ response.status = HTTP_404_NOT_FOUND
                /\ response.handler = "read_item"
                /\ response.body.detail = "Item not found"

C10_Witness ==
    /\ ItemRoute
    /\ request.item_id = "6F9619FF8B86D011B42D00C04FC964FF"
    /\ request.short = Some(FALSE)
    /\ request.q = Some("fixedquery")
    /\ response.status = HTTP_404_NOT_FOUND

====
